---- MODULE Spec2Model ----
(***************************************************************************)
(* Email-forwarding backend: the email acceptability filter                *)
(* (isAcceptableEmail), the reason-to-user-message mapper                   *)
(* (userMessageForReason), the POST /api/contact and POST /api/subscribe   *)
(* handlers and sendMail.                                                   *)
(*                                                                          *)
(* Strings are TLA+ strings (sequences of characters): Len, \o and SubSeq  *)
(* are the only primitives used on them.                                    *)
(***************************************************************************)
EXTENDS Integers, Sequences, FiniteSets, TLC

VARIABLES
    env,                 \* process.env: MX_CHECK, NODE_ENV
    route,               \* which handler (or which copy of the filter) is running
    body,                \* req.body of the request in flight
    email,               \* the handler's trimmed email / the filter's argument
    reasonArg,           \* the argument of userMessageForReason (mapper runs)
    pc,                  \* position of the request in its handler
    check,               \* what isAcceptableEmail returned
    userMsg,             \* what userMessageForReason returned
    dnsLog,              \* DNS lookups issued by the call in flight, in order
    mails,               \* sendMail calls of the request in flight, in order
    res,                 \* the HTTP response written
    transporterPromise,  \* email.ts module state
    creations,           \* how many times createTransporter has been invoked
    creationsBefore,       \* the value of creations when the request in flight arrived
    calls,               \* concurrent sendMail calls, each at its own position
    prev                 \* an earlier call of isAcceptableEmail: its input and verdict

vars == <<env, route, body, email, reasonArg, pc, check, userMsg, dnsLog, mails,
          res, transporterPromise, creations, creationsBefore, calls, prev>>

----------------------------------------------------------------------------
(* Bounds of the model *)

MaxGenLen == 5       \* generated candidate addresses have at most this many characters
MaxFrags == 2        \* generated reason strings are made of at most this many fragments
MaxCalls == 2        \* sendMail calls that can be in flight at the same time

----------------------------------------------------------------------------
(* JavaScript string primitives *)

Undefined == "<undefined>"

Ch(s, i) == SubSeq(s, i, i)

WhiteSpace == {" ", "\t", "\n"}

Digits == {"0", "1", "2", "3", "4", "5", "6", "7", "8", "9"}

UpperCase == "ABCDEFGHIJKLMNOPQRSTUVWXYZ"

LowerCase == "abcdefghijklmnopqrstuvwxyz"

SetMin(S) == CHOOSE x \in S : \A y \in S : x <= y

SetMax(S) == CHOOSE x \in S : \A y \in S : x >= y

\* String.prototype.trim
Trim(s) ==
    LET keep == {i \in 1..Len(s) : Ch(s, i) \notin WhiteSpace}
    IN  IF keep = {} THEN "" ELSE SubSeq(s, SetMin(keep), SetMax(keep))

\* String.prototype.includes
Includes(s, sub) ==
    \E i \in 1..(Len(s) - Len(sub) + 1) : SubSeq(s, i, i + Len(sub) - 1) = sub

\* String.prototype.startsWith
StartsWith(s, sub) == Len(sub) <= Len(s) /\ SubSeq(s, 1, Len(sub)) = sub

\* String.prototype.endsWith
EndsWith(s, sub) ==
    Len(sub) <= Len(s) /\ SubSeq(s, Len(s) - Len(sub) + 1, Len(s)) = sub

UpperLetters == {Ch(UpperCase, i) : i \in 1..Len(UpperCase)}

LowerOfUpper ==
    [c \in UpperLetters |->
        Ch(LowerCase, CHOOSE i \in 1..Len(UpperCase) : Ch(UpperCase, i) = c)]

LowerChar(c) == IF c \in UpperLetters THEN LowerOfUpper[c] ELSE c

RECURSIVE ToLowerCase(_)
\* String.prototype.toLowerCase
ToLowerCase(s) ==
    IF Len(s) = 0 THEN ""
    ELSE IF Len(s) = 1 THEN LowerChar(s)
    ELSE LET h == Len(s) \div 2
         IN  ToLowerCase(SubSeq(s, 1, h)) \o ToLowerCase(SubSeq(s, h + 1, Len(s)))

\* s.replace(/\./g, '')
RECURSIVE RemoveDots(_)
RemoveDots(s) ==
    IF Len(s) = 0 THEN ""
    ELSE IF Len(s) = 1 THEN (IF s = "." THEN "" ELSE s)
    ELSE LET h == Len(s) \div 2
         IN  RemoveDots(SubSeq(s, 1, h)) \o RemoveDots(SubSeq(s, h + 1, Len(s)))

\* /^\d+$/.test(s)
AllDigits(s) == Len(s) >= 1 /\ \A i \in 1..Len(s) : Ch(s, i) \in Digits

\* /^test\d*$/i.test(s)
TestDigitsRegex(s) ==
    /\ Len(s) >= 4
    /\ ToLowerCase(SubSeq(s, 1, 4)) = "test"
    /\ \A i \in 5..Len(s) : Ch(s, i) \in Digits

AtPositions(s) == {i \in 1..Len(s) : Ch(s, i) = "@"}

\* raw.split('@'): the pieces between the '@' characters, in order
Split(s) ==
    LET ats == AtPositions(s)
        cuts == {0} \cup ats \cup {Len(s) + 1}
        next(c) == SetMin({d \in cuts : d > c})
        RECURSIVE from(_)
        from(c) == IF c = Len(s) + 1 THEN << >>
                   ELSE <<SubSeq(s, c + 1, next(c) - 1)>> \o from(next(c))
    IN  from(0)

\* Mutant of simpleEmailRegex: the pattern is /^[^\s@]+@[^\s@]+$/, which asks for
\* no '.' after the '@'
simpleEmailRegexNoDot(s) ==
    /\ \A i \in 1..Len(s) : Ch(s, i) \notin WhiteSpace
    /\ Cardinality(AtPositions(s)) = 1
    /\ LET at == CHOOSE i \in AtPositions(s) : TRUE
       IN  at > 1 /\ at < Len(s)

\* /^[^\s@]+@[^\s@]+\.[^\s@]+$/.test(s): no whitespace, exactly one '@' with a
\* character before it, and after it a '.' that has a character on each side
simpleEmailRegex(s) ==
    /\ \A i \in 1..Len(s) : Ch(s, i) \notin WhiteSpace
    /\ Cardinality(AtPositions(s)) = 1
    /\ LET at == CHOOSE i \in AtPositions(s) : TRUE
       IN  /\ at > 1
           /\ \E j \in (at + 2)..(Len(s) - 1) : Ch(s, j) = "."

RECURSIVE Repeat(_, _)
\* n copies of s
Repeat(s, n) ==
    IF n = 0 THEN ""
    ELSE IF n = 1 THEN s
    ELSE Repeat(s, n \div 2) \o Repeat(s, n - (n \div 2))


----------------------------------------------------------------------------
(* isAcceptableEmail: verdicts *)

MaxLocalLen == 64

MaxDomainLen == 255

Accepted == [ok |-> TRUE, reason |-> Undefined]

Rejected(reason) == [ok |-> FALSE, reason |-> reason]

\* Not a verdict: rules 1-10 passed, the call goes on to the MX_CHECK block
ToDns == [ok |-> TRUE, reason |-> "<to dns>"]

(* isAcceptableEmail, src/routes/contact.ts *)

contactExampleDomains ==
    {"example.com", "example.org", "example.net", "example.co", "example"}

contactDisposableDomains ==
    {"mailinator.com", "10minutemail.com", "temp-mail.org", "tempmail.net",
     "yopmail.com", "guerrillamail.com", "maildrop.cc", "getnada.com",
     "trashmail.com", "dispostable.com", "trashmail.net", "mailnesia.com",
     "temp-mail.io", "spamgourmet.com", "mintemail.com", "mail-temporaire.fr",
     "caainpt.com"}

contactBlockedLocalExact ==
    {"admin", "administrator", "postmaster", "hostmaster", "webmaster", "info",
     "support", "sales", "contact", "abuse", "security", "noreply", "no-reply",
     "notifications", "mailer-daemon", "root", "test", "example", "null", "dummy"}

\* Mutant of contactStaticRules: the test/dummy pattern rule is tried before the
\* exact role/test rule
contactStaticRulesPatternFirst(emailArg) ==
    LET raw == Trim(IF emailArg = Undefined THEN "" ELSE emailArg)
        parts == Split(raw)
        localPart == parts[1]
        domainPart == IF Len(parts) >= 2 THEN parts[2] ELSE Undefined
        lowerLocal == ToLowerCase(localPart)
        lowerDomain == ToLowerCase(domainPart)
    IN  IF raw = "" THEN Rejected("empty email")
        ELSE IF ~simpleEmailRegex(raw) THEN Rejected("invalid format")
        ELSE IF localPart = "" \/ domainPart = Undefined \/ domainPart = ""
            THEN Rejected("invalid format")
        ELSE IF Len(localPart) > MaxLocalLen THEN Rejected("local part too long")
        ELSE IF Len(domainPart) > MaxDomainLen THEN Rejected("domain too long")
        ELSE IF \/ StartsWith(localPart, ".")
                \/ EndsWith(localPart, ".")
                \/ Includes(localPart, "..")
            THEN Rejected("invalid local")
        ELSE IF \/ StartsWith(domainPart, "-")
                \/ EndsWith(domainPart, "-")
                \/ Includes(domainPart, "..")
            THEN Rejected("invalid domain")
        ELSE IF lowerDomain \in contactExampleDomains \/ Includes(lowerDomain, "example")
            THEN Rejected("blocked domain (example)")
        ELSE IF lowerDomain \in contactDisposableDomains
            THEN Rejected("disposable email provider")
        ELSE IF \/ TestDigitsRegex(lowerLocal)
                \/ Includes(lowerLocal, "test")
                \/ Includes(lowerLocal, "dummy")
            THEN Rejected("test/dummy address blocked")
        ELSE IF lowerLocal \in contactBlockedLocalExact
            THEN Rejected("role or test account blocked")
        ELSE IF AllDigits(RemoveDots(lowerDomain)) THEN Rejected("suspicious domain")
        ELSE ToDns

\* The rules that need no DNS: the verdict they give, or ToDns when they all pass.
contactStaticRules(emailArg) ==
    LET raw == Trim(IF emailArg = Undefined THEN "" ELSE emailArg)
        parts == Split(raw)
        localPart == parts[1]
        domainPart == IF Len(parts) >= 2 THEN parts[2] ELSE Undefined
        lowerLocal == ToLowerCase(localPart)
        lowerDomain == ToLowerCase(domainPart)
    IN  IF raw = "" THEN Rejected("empty email")
        ELSE IF ~simpleEmailRegex(raw) THEN Rejected("invalid format")
        ELSE IF localPart = "" \/ domainPart = Undefined \/ domainPart = ""
            THEN Rejected("invalid format")
        ELSE IF Len(localPart) > MaxLocalLen THEN Rejected("local part too long")
        ELSE IF Len(domainPart) > MaxDomainLen THEN Rejected("domain too long")
        ELSE IF \/ StartsWith(localPart, ".")
                \/ EndsWith(localPart, ".")
                \/ Includes(localPart, "..")
            THEN Rejected("invalid local")
        ELSE IF \/ StartsWith(domainPart, "-")
                \/ EndsWith(domainPart, "-")
                \/ Includes(domainPart, "..")
            THEN Rejected("invalid domain")
        ELSE IF lowerDomain \in contactExampleDomains \/ Includes(lowerDomain, "example")
            THEN Rejected("blocked domain (example)")
        ELSE IF lowerDomain \in contactDisposableDomains
            THEN Rejected("disposable email provider")
        ELSE IF lowerLocal \in contactBlockedLocalExact
            THEN Rejected("role or test account blocked")
        ELSE IF \/ TestDigitsRegex(lowerLocal)
                \/ Includes(lowerLocal, "test")
                \/ Includes(lowerLocal, "dummy")
            THEN Rejected("test/dummy address blocked")
        ELSE IF AllDigits(RemoveDots(lowerDomain)) THEN Rejected("suspicious domain")
        ELSE ToDns

(* isAcceptableEmail, the subscribe route *)

subscribeExampleDomains ==
    {"example.com", "example.org", "example.net", "example.co", "example"}

subscribeDisposableDomains ==
    {"mailinator.com", "10minutemail.com", "temp-mail.org", "tempmail.net",
     "yopmail.com", "guerrillamail.com", "maildrop.cc", "getnada.com",
     "trashmail.com", "dispostable.com", "trashmail.net", "mailnesia.com",
     "temp-mail.io", "spamgourmet.com", "mintemail.com", "mail-temporaire.fr",
     "caainpt.com"}

subscribeBlockedLocalExact ==
    {"admin", "administrator", "postmaster", "hostmaster", "webmaster", "info",
     "support", "sales", "contact", "abuse", "security", "noreply", "no-reply",
     "notifications", "mailer-daemon", "root", "test", "example", "null", "dummy"}

\* The rules that need no DNS: the verdict they give, or ToDns when they all pass.
subscribeStaticRules(emailArg) ==
    LET raw == Trim(IF emailArg = Undefined THEN "" ELSE emailArg)
        parts == Split(raw)
        localPart == parts[1]
        domainPart == IF Len(parts) >= 2 THEN parts[2] ELSE Undefined
        lowerLocal == ToLowerCase(localPart)
        lowerDomain == ToLowerCase(domainPart)
    IN  IF raw = "" THEN Rejected("empty email")
        ELSE IF ~simpleEmailRegex(raw) THEN Rejected("invalid format")
        ELSE IF localPart = "" \/ domainPart = Undefined \/ domainPart = ""
            THEN Rejected("invalid format")
        ELSE IF Len(localPart) > MaxLocalLen THEN Rejected("local part too long")
        ELSE IF Len(domainPart) > MaxDomainLen THEN Rejected("domain too long")
        ELSE IF \/ StartsWith(localPart, ".")
                \/ EndsWith(localPart, ".")
                \/ Includes(localPart, "..")
            THEN Rejected("invalid local part")
        ELSE IF \/ StartsWith(domainPart, "-")
                \/ EndsWith(domainPart, "-")
                \/ Includes(domainPart, "..")
            THEN Rejected("invalid domain")
        ELSE IF lowerDomain \in subscribeExampleDomains \/ Includes(lowerDomain, "example")
            THEN Rejected("blocked domain (example)")
        ELSE IF lowerDomain \in subscribeDisposableDomains
            THEN Rejected("disposable email provider")
        ELSE IF lowerLocal \in subscribeBlockedLocalExact
            THEN Rejected("role or test account blocked")
        ELSE IF \/ TestDigitsRegex(lowerLocal)
                \/ Includes(lowerLocal, "test")
                \/ Includes(lowerLocal, "dummy")
            THEN Rejected("test/dummy address blocked")
        ELSE IF AllDigits(RemoveDots(lowerDomain)) THEN Rejected("suspicious domain")
        ELSE ToDns

StaticRules(rt, emailArg) ==
    IF rt = "contact" THEN contactStaticRules(emailArg) ELSE subscribeStaticRules(emailArg)

----------------------------------------------------------------------------
(* userMessageForReason: internal reason -> {code, message, field}.          *)
(* The em dash of the email_invalid_format message is written '-'.           *)

(* userMessageForReason, src/routes/contact.ts *)
\* Mutant of contactUserMessageForReason: the function ends without the generic
\* fallback, so an unmatched reason gets no code
contactUserMessageForReasonNoFallback(reason) ==
    LET r == ToLowerCase(IF reason = Undefined THEN "" ELSE reason)
    IN  IF Includes(r, "empty")
            THEN [code |-> "email_missing",
                  message |-> "Please enter your email address.",
                  field |-> "email"]
        ELSE IF \/ Includes(r, "invalid format")
                \/ Includes(r, "invalid local")
                \/ Includes(r, "invalid domain")
            THEN [code |-> "email_invalid_format",
                  message |-> "That email address doesn't look right - please check and try again.",
                  field |-> "email"]
        ELSE IF Includes(r, "local part too long") \/ Includes(r, "domain too long")
            THEN [code |-> "email_too_long",
                  message |-> "That email address is too long. Try a shorter address.",
                  field |-> "email"]
        ELSE IF Includes(r, "blocked domain") \/ Includes(r, "example")
            THEN [code |-> "email_blocked_domain",
                  message |-> "We don't accept addresses from that domain. Please use a different email.",
                  field |-> "email"]
        ELSE IF \/ Includes(r, "disposable")
                \/ Includes(r, "temporary")
                \/ Includes(r, "temp")
            THEN [code |-> "email_disposable",
                  message |-> "Temporary/disposable email addresses aren't accepted. Please use an address you check regularly.",
                  field |-> "email"]
        ELSE IF \/ Includes(r, "role")
                \/ Includes(r, "test")
                \/ Includes(r, "dummy")
                \/ Includes(r, "role or test")
            THEN [code |-> "email_role_or_test",
                  message |-> "Please enter a personal email address (not 'admin', 'info', or 'test').",
                  field |-> "email"]
        ELSE IF Includes(r, "no mail servers") \/ Includes(r, "domain verification failed")
            THEN [code |-> "email_domain_unverified",
                  message |-> "We couldn't verify that email's domain. Please check your email or try another address.",
                  field |-> "email"]
        ELSE [code |-> Undefined, message |-> Undefined, field |-> Undefined]

contactUserMessageForReason(reason) ==
    LET r == ToLowerCase(IF reason = Undefined THEN "" ELSE reason)
    IN  IF Includes(r, "empty")
            THEN [code |-> "email_missing",
                  message |-> "Please enter your email address.",
                  field |-> "email"]
        ELSE IF \/ Includes(r, "invalid format")
                \/ Includes(r, "invalid local")
                \/ Includes(r, "invalid domain")
            THEN [code |-> "email_invalid_format",
                  message |-> "That email address doesn't look right - please check and try again.",
                  field |-> "email"]
        ELSE IF Includes(r, "local part too long") \/ Includes(r, "domain too long")
            THEN [code |-> "email_too_long",
                  message |-> "That email address is too long. Try a shorter address.",
                  field |-> "email"]
        ELSE IF Includes(r, "blocked domain") \/ Includes(r, "example")
            THEN [code |-> "email_blocked_domain",
                  message |-> "We don't accept addresses from that domain. Please use a different email.",
                  field |-> "email"]
        ELSE IF \/ Includes(r, "disposable")
                \/ Includes(r, "temporary")
                \/ Includes(r, "temp")
            THEN [code |-> "email_disposable",
                  message |-> "Temporary/disposable email addresses aren't accepted. Please use an address you check regularly.",
                  field |-> "email"]
        ELSE IF \/ Includes(r, "role")
                \/ Includes(r, "test")
                \/ Includes(r, "dummy")
                \/ Includes(r, "role or test")
            THEN [code |-> "email_role_or_test",
                  message |-> "Please enter a personal email address (not 'admin', 'info', or 'test').",
                  field |-> "email"]
        ELSE IF Includes(r, "no mail servers") \/ Includes(r, "domain verification failed")
            THEN [code |-> "email_domain_unverified",
                  message |-> "We couldn't verify that email's domain. Please check your email or try another address.",
                  field |-> "email"]
        ELSE [code |-> "email_unacceptable",
              message |-> "We can't send a confirmation to that email address. Please try a different one.",
              field |-> "email"]

(* userMessageForReason, the subscribe route *)
\* Mutant of subscribeUserMessageForReason: the role/test/dummy test is made before
\* the disposable/temp test
subscribeUserMessageForReasonRoleFirst(reason) ==
    LET r == ToLowerCase(IF reason = Undefined THEN "" ELSE reason)
    IN  IF Includes(r, "empty")
            THEN [code |-> "email_missing",
                  message |-> "Please enter your email address.",
                  field |-> "email"]
        ELSE IF \/ Includes(r, "invalid format")
                \/ Includes(r, "invalid local")
                \/ Includes(r, "invalid domain")
                \/ Includes(r, "invalid format")
            THEN [code |-> "email_invalid_format",
                  message |-> "That email address doesn't look right - please check and try again.",
                  field |-> "email"]
        ELSE IF Includes(r, "local part too long") \/ Includes(r, "domain too long")
            THEN [code |-> "email_too_long",
                  message |-> "That email address is too long. Try a shorter address.",
                  field |-> "email"]
        ELSE IF Includes(r, "blocked domain") \/ Includes(r, "example")
            THEN [code |-> "email_blocked_domain",
                  message |-> "We don't accept addresses from that domain. Please use a different email.",
                  field |-> "email"]
        ELSE IF \/ Includes(r, "role")
                \/ Includes(r, "test")
                \/ Includes(r, "dummy")
                \/ Includes(r, "role or test")
            THEN [code |-> "email_role_or_test",
                  message |-> "Please enter a personal email address (not 'admin', 'info', or 'test').",
                  field |-> "email"]
        ELSE IF \/ Includes(r, "disposable")
                \/ Includes(r, "temporary")
                \/ Includes(r, "temp")
            THEN [code |-> "email_disposable",
                  message |-> "Temporary/disposable email addresses aren't accepted. Please use a real address you check regularly.",
                  field |-> "email"]
        ELSE IF Includes(r, "no mail servers") \/ Includes(r, "domain verification failed")
            THEN [code |-> "email_domain_unverified",
                  message |-> "We couldn't verify the email's domain. Please check your email or try another address.",
                  field |-> "email"]
        ELSE [code |-> "email_unacceptable",
              message |-> "We can't send a confirmation to that email address. Please try a different one.",
              field |-> "email"]

subscribeUserMessageForReason(reason) ==
    LET r == ToLowerCase(IF reason = Undefined THEN "" ELSE reason)
    IN  IF Includes(r, "empty")
            THEN [code |-> "email_missing",
                  message |-> "Please enter your email address.",
                  field |-> "email"]
        ELSE IF \/ Includes(r, "invalid format")
                \/ Includes(r, "invalid local")
                \/ Includes(r, "invalid domain")
                \/ Includes(r, "invalid format")
            THEN [code |-> "email_invalid_format",
                  message |-> "That email address doesn't look right - please check and try again.",
                  field |-> "email"]
        ELSE IF Includes(r, "local part too long") \/ Includes(r, "domain too long")
            THEN [code |-> "email_too_long",
                  message |-> "That email address is too long. Try a shorter address.",
                  field |-> "email"]
        ELSE IF Includes(r, "blocked domain") \/ Includes(r, "example")
            THEN [code |-> "email_blocked_domain",
                  message |-> "We don't accept addresses from that domain. Please use a different email.",
                  field |-> "email"]
        ELSE IF \/ Includes(r, "disposable")
                \/ Includes(r, "temporary")
                \/ Includes(r, "temp")
            THEN [code |-> "email_disposable",
                  message |-> "Temporary/disposable email addresses aren't accepted. Please use a real address you check regularly.",
                  field |-> "email"]
        ELSE IF \/ Includes(r, "role")
                \/ Includes(r, "test")
                \/ Includes(r, "dummy")
                \/ Includes(r, "role or test")
            THEN [code |-> "email_role_or_test",
                  message |-> "Please enter a personal email address (not 'admin', 'info', or 'test').",
                  field |-> "email"]
        ELSE IF Includes(r, "no mail servers") \/ Includes(r, "domain verification failed")
            THEN [code |-> "email_domain_unverified",
                  message |-> "We couldn't verify the email's domain. Please check your email or try another address.",
                  field |-> "email"]
        ELSE [code |-> "email_unacceptable",
              message |-> "We can't send a confirmation to that email address. Please try a different one.",
              field |-> "email"]

userMessageForReason(rt, reason) ==
    IF rt = "contact" THEN contactUserMessageForReason(reason)
    ELSE subscribeUserMessageForReason(reason)

----------------------------------------------------------------------------
(* Inputs *)

\* Candidate addresses chosen for the rules they meet, alone and together
CuratedCandidates ==
    {Undefined, "", " ", " \t\n", "plainaddress", "a@b", "@b.co", "a.b", "a@b@c.de",
     "a b@c.de", "jane@example",
     "jane.doe@gmail.com", "  jane.doe@gmail.com\n", "Jane@Gmail.COM", "admins@gmail.com",
     "user@sub.mailinator.com",
     Repeat("a", MaxLocalLen) \o "@gmail.com",
     Repeat("a", MaxLocalLen + 1) \o "@gmail.com",
     Repeat("a", MaxLocalLen + 1) \o "@mailinator.com",
     "test" \o Repeat("1", MaxLocalLen) \o "@example.com",
     "." \o Repeat("a", MaxLocalLen) \o "@gmail.com",
     "jane@" \o Repeat("a", MaxDomainLen - 4) \o ".com",
     "jane@" \o Repeat("a", MaxDomainLen - 3) \o ".com",
     "admin@-" \o Repeat("1", MaxDomainLen - 3) \o ".12",
     Repeat("a", MaxLocalLen + 1) \o "@" \o Repeat("a", MaxDomainLen - 3) \o ".com",
     ".jane@gmail.com", "jane.@gmail.com", "ja..ne@gmail.com", ".jane@-gmail.com",
     "jane@-gmail.com", "jane@gmail.com-", "jane@gmail..com", "jane@-example.com",
     "jane@example.com", "jane@EXAMPLE.org", "jane@myexample.io", "admin@example.com",
     "user@mailinator.com", "admin@mailinator.com", "user@Yopmail.com",
     "test@temp-mail.org", "user@10minutemail.com",
     "admin@gmail.com", "ADMIN@gmail.com", "test@gmail.com", "dummy@gmail.com",
     "no-reply@x.co", "example@gmail.com", "null@gmail.com", "Test@123.45",
     "test1@gmail.com", "test123@gmail.com", "mytest@gmail.com", "contest.winner@gmail.com",
     "DUMMY2@gmail.com", "attest@123.45",
     "jane@123.456", "jane@1.2.3.4", "jane@127.0.0.1"}

GenAlphabet == {"a", "1", "@", ".", " ", "-"}

RECURSIVE GenStrings(_)
\* Every string of at most n characters of GenAlphabet
GenStrings(n) ==
    IF n = 0 THEN {""}
    ELSE LET shorter == GenStrings(n - 1)
         IN  shorter \cup {s \o c : s \in shorter, c \in GenAlphabet}

Candidates == CuratedCandidates \cup GenStrings(MaxGenLen)


\* process.env values: a variable is unset or holds a string
MxCheckValues == {Undefined, "true", "false", "TRUE"}

NodeEnvValues == {Undefined, "production", "development"}

FilterRoutes == {"contact", "subscribe"}

\* What a DNS lookup can do: reject (ENOTFOUND, ETIMEOUT, ...), resolve to no
\* record, resolve to at least one record
DnsResults == {"error", "empty", "records"}

----------------------------------------------------------------------------
(* State *)

NoVerdict == [ok |-> FALSE, reason |-> "<pending>"]

NoUserMsg == [code |-> Undefined, message |-> Undefined, field |-> Undefined]

\* A response not yet written has status 0; a body key that is absent is Undefined
NoResponse ==
    [status |-> 0, ok |-> FALSE, code |-> Undefined, message |-> Undefined,
     field |-> Undefined, error |-> Undefined, reason |-> Undefined]

\* let transporterPromise = null
NoTransporter == [state |-> "null", error |-> Undefined]

NoBody == [name |-> Undefined, email |-> Undefined, message |-> Undefined]

\* A sendMail call that has not been made: promise is the number of the
\* createTransporter invocation whose promise the call awaits, 0 before getTransporter
NoSendCall ==
    [pc |-> "idle", to |-> Undefined, promise |-> 0, rcpt |-> Undefined,
     error |-> Undefined]

NoCalls == [c \in 1..MaxCalls |-> NoSendCall]

\* No call of isAcceptableEmail remembered
NoCall == [route |-> Undefined, email |-> Undefined, check |-> NoVerdict]

----------------------------------------------------------------------------
(* isAcceptableEmail as the steps of one call: the rules up to the first     *)
(* await, then one step per DNS lookup                                       *)

\* Mutant of shouldCheckMx: verification is on unless MX_CHECK is 'false'
shouldCheckMxByDefault == env.MX_CHECK # "false"

\* const shouldCheckMx = process.env.MX_CHECK === 'true'
shouldCheckMx == env.MX_CHECK = "true"

\* Mutant of Rules: the pattern is one module-level regular expression with the g
\* flag, so a test that matched leaves lastIndex at the end of the string and the
\* test of the next call fails
RulesGlobalRegex ==
    /\ pc = "rules"
    /\ LET v == StaticRules(route, email)
           matchedBefore == check.reason \notin {"<pending>", "empty email", "invalid format"}
       IN  IF matchedBefore /\ v # Rejected("empty email")
               THEN check' = Rejected("invalid format") /\ pc' = "returned"
           ELSE IF v # ToDns THEN check' = v /\ pc' = "returned"
           ELSE IF shouldCheckMx THEN check' = check /\ pc' = "resolveMx"
           ELSE check' = Accepted /\ pc' = "returned"
    /\ UNCHANGED <<env, route, body, email, reasonArg, userMsg, dnsLog, mails, res,
                   transporterPromise, creations, creationsBefore, calls, prev>>

\* Rules 1-10 and the MX_CHECK test
Rules ==
    /\ pc = "rules"
    /\ LET v == StaticRules(route, email)
       IN  IF v # ToDns THEN check' = v /\ pc' = "returned"
           ELSE IF shouldCheckMx THEN check' = check /\ pc' = "resolveMx"
           ELSE check' = Accepted /\ pc' = "returned"
    /\ UNCHANGED <<env, route, body, email, reasonArg, userMsg, dnsLog, mails, res,
                   transporterPromise, creations, creationsBefore, calls, prev>>

\* Mutant of ResolveMx: the mail-exchange lookup is given .catch(() => []) too
ResolveMxCaught ==
    /\ pc = "resolveMx"
    /\ \E r \in DnsResults :
          /\ dnsLog' = Append(dnsLog, [rr |-> "MX", result |-> r])
          /\ IF r \in {"error", "empty"} THEN check' = check /\ pc' = "resolveA"
             ELSE check' = Accepted /\ pc' = "returned"
    /\ UNCHANGED <<env, route, body, email, reasonArg, userMsg, mails, res,
                   transporterPromise, creations, creationsBefore, calls, prev>>

\* const mx = await dns.resolveMx(domainPart)
ResolveMx ==
    /\ pc = "resolveMx"
    /\ \E r \in DnsResults :
          /\ dnsLog' = Append(dnsLog, [rr |-> "MX", result |-> r])
          /\ IF r = "error"
                 THEN check' = Rejected("domain verification failed") /\ pc' = "returned"
             ELSE IF r = "empty" THEN check' = check /\ pc' = "resolveA"
             ELSE check' = Accepted /\ pc' = "returned"
    /\ UNCHANGED <<env, route, body, email, reasonArg, userMsg, mails, res,
                   transporterPromise, creations, creationsBefore, calls, prev>>

\* const a = await dns.resolve(domainPart, 'A').catch(() => [])
ResolveA ==
    /\ pc = "resolveA"
    /\ \E r \in DnsResults :
          dnsLog' = Append(dnsLog, [rr |-> "A", result |-> r])
    /\ pc' = "resolveAAAA"
    /\ UNCHANGED <<env, route, body, email, reasonArg, check, userMsg, mails, res,
                   transporterPromise, creations, creationsBefore, calls, prev>>

\* .catch(() => []): a rejected lookup becomes the empty list
Caught(r) == IF r = "error" THEN "empty" ELSE r

\* Mutant of ResolveAAAA: the domain is rejected when either address lookup is empty
ResolveAAAAEither ==
    /\ pc = "resolveAAAA"
    /\ \E r \in DnsResults :
          /\ dnsLog' = Append(dnsLog, [rr |-> "AAAA", result |-> r])
          /\ LET a == Caught(dnsLog[Len(dnsLog)].result)
                 aaaa == Caught(r)
             IN  IF a = "empty" \/ aaaa = "empty"
                 THEN check' = Rejected("no mail servers for domain (MX/A/AAAA missing)")
                 ELSE check' = Accepted
    /\ pc' = "returned"
    /\ UNCHANGED <<env, route, body, email, reasonArg, userMsg, mails, res,
                   transporterPromise, creations, creationsBefore, calls, prev>>

\* const aaaa = await dns.resolve(domainPart, 'AAAA').catch(() => []), and the test on a and aaaa
ResolveAAAA ==
    /\ pc = "resolveAAAA"
    /\ \E r \in DnsResults :
          /\ dnsLog' = Append(dnsLog, [rr |-> "AAAA", result |-> r])
          /\ LET a == Caught(dnsLog[Len(dnsLog)].result)
                 aaaa == Caught(r)
             IN  IF a = "empty" /\ aaaa = "empty"
                 THEN check' = Rejected("no mail servers for domain (MX/A/AAAA missing)")
                 ELSE check' = Accepted
    /\ pc' = "returned"
    /\ UNCHANGED <<env, route, body, email, reasonArg, userMsg, mails, res,
                   transporterPromise, creations, creationsBefore, calls, prev>>

\* One call of isAcceptableEmail, of either route's copy, on any candidate
InitFilter ==
    /\ env \in [MX_CHECK : MxCheckValues, NODE_ENV : {Undefined},
                NOTIFICATION_EMAIL : {Undefined}]
    /\ route \in FilterRoutes
    /\ email \in Candidates
    /\ pc = "rules"
    /\ body = NoBody
    /\ reasonArg = Undefined
    /\ check = NoVerdict
    /\ userMsg = NoUserMsg
    /\ dnsLog = << >>
    /\ mails = << >>
    /\ res = NoResponse
    /\ transporterPromise = NoTransporter
    /\ creations = 0
    /\ creationsBefore = 0
    /\ calls = NoCalls
    /\ prev = NoCall

NextFilter == Rules \/ ResolveMx \/ ResolveA \/ ResolveAAAA

SpecFilter == InitFilter /\ [][NextFilter]_vars

----------------------------------------------------------------------------
(* sendMail and the transporter it memoises *)

\* const notificationEmail = process.env.NOTIFICATION_EMAIL || 'mohfey@gmail.com'
notificationEmail ==
    IF env.NOTIFICATION_EMAIL \in {Undefined, ""} THEN "mohfey@gmail.com"
    ELSE env.NOTIFICATION_EMAIL

\* err.message of an error thrown by nodemailer
ErrorMessages == {"", "connect ECONNREFUSED"}

\* Mutant of getTransporter: a rejected promise is dropped and the creation retried
getTransporterRetrying(created) ==
    IF transporterPromise.state \in {"null", "rejected"} THEN created
    ELSE transporterPromise

\* getTransporter: the promise is created on the first call and reused afterwards;
\* createTransporter resolves to a transporter or rejects with an error
getTransporter(created) ==
    IF transporterPromise.state = "null" THEN created ELSE transporterPromise

TransporterOutcomes ==
    {[state |-> "resolved", error |-> Undefined]}
        \cup {[state |-> "rejected", error |-> m] : m \in ErrorMessages}

\* The catch block of both handlers
Respond500(message) ==
    [NoResponse EXCEPT !.status = 500,
                       !.error = IF message = "" THEN "Failed to send" ELSE message]

\* Mutant of sendMail: the catch block logs the error and does not rethrow it, so
\* the handler goes on as if the mail had been sent
sendMailSwallowing(optsTo, okPc, okRes) ==
    \E created \in TransporterOutcomes, delivered \in BOOLEAN, m \in ErrorMessages :
        LET tp == getTransporter(created)
            to == Trim(IF optsTo \in {Undefined, ""} THEN notificationEmail ELSE optsTo)
        IN  /\ transporterPromise' = tp
            /\ creations' = IF transporterPromise.state = "null" THEN creations + 1
                            ELSE creations
            /\ IF tp.state = "rejected"
                   THEN /\ mails' = Append(mails, [to |-> optsTo, rcpt |-> Undefined,
                                                   outcome |-> "no transporter"])
                        /\ res' = Respond500(tp.error)
                        /\ pc' = "done"
               ELSE /\ mails' = Append(mails, [to |-> optsTo, rcpt |-> to,
                                               outcome |-> IF delivered THEN "sent"
                                                           ELSE "send failed"])
                    /\ res' = okRes
                    /\ pc' = okPc

\* One sendMail(opts) call awaited by a handler. opts.to is optsTo; onOk is what the
\* handler does when the call returns. A call that throws lands in the handler's catch.
sendMail(optsTo, okPc, okRes) ==
    \E created \in TransporterOutcomes, delivered \in BOOLEAN, m \in ErrorMessages :
        LET tp == getTransporter(created)
            to == Trim(IF optsTo \in {Undefined, ""} THEN notificationEmail ELSE optsTo)
        IN  /\ transporterPromise' = tp
            /\ creations' = IF transporterPromise.state = "null" THEN creations + 1
                            ELSE creations
            /\ IF tp.state = "rejected"
                   THEN /\ mails' = Append(mails, [to |-> optsTo, rcpt |-> Undefined,
                                                   outcome |-> "no transporter"])
                        /\ res' = Respond500(tp.error)
                        /\ pc' = "done"
               ELSE IF ~delivered
                   THEN /\ mails' = Append(mails, [to |-> optsTo, rcpt |-> to,
                                                   outcome |-> "send failed"])
                        /\ res' = Respond500(m)
                        /\ pc' = "done"
               ELSE /\ mails' = Append(mails, [to |-> optsTo, rcpt |-> to,
                                               outcome |-> "sent"])
                    /\ res' = okRes
                    /\ pc' = okPc

----------------------------------------------------------------------------
(* sendMail called concurrently: each call is a sequence of steps separated  *)
(* by its awaits, and the steps of the calls in flight interleave.           *)

\* opts.to of a call: absent (the admin notification) or the submitter's address
SendTos == {Undefined, "jane.doe@gmail.com"}

\* let transporterPromise = createTransporter(), not yet settled
PendingTransporter == [state |-> "pending", error |-> Undefined]

\* Mutant of GetTransporter: getTransporter assigns transporterPromise only after
\* awaiting createTransporter(), so the variable is still null while the creation
\* is in progress
GetTransporterStoringAfterAwait(c) ==
    /\ calls[c].pc = "idle"
    /\ IF transporterPromise.state = "null"
       THEN creations' = creations + 1
       ELSE creations' = creations
    /\ \E to \in SendTos :
          calls' = [calls EXCEPT ![c] = [NoSendCall EXCEPT !.pc = "awaitTransporter",
                                                           !.to = to,
                                                           !.promise = creations']]
    /\ UNCHANGED <<env, route, body, email, reasonArg, pc, check, userMsg, dnsLog,
                   mails, res, transporterPromise, creationsBefore, prev>>

\* sendMail(opts) is called and runs to its first await: getTransporter() creates
\* and stores the promise when there is none, and returns the stored promise
GetTransporter(c) ==
    /\ calls[c].pc = "idle"
    /\ IF transporterPromise.state = "null"
       THEN /\ transporterPromise' = PendingTransporter
            /\ creations' = creations + 1
       ELSE /\ transporterPromise' = transporterPromise
            /\ creations' = creations
    /\ \E to \in SendTos :
          calls' = [calls EXCEPT ![c] = [NoSendCall EXCEPT !.pc = "awaitTransporter",
                                                           !.to = to,
                                                           !.promise = creations']]
    /\ UNCHANGED <<env, route, body, email, reasonArg, pc, check, userMsg, dnsLog,
                   mails, res, creationsBefore, prev>>

\* createTransporter() returns a transporter or throws: its promise settles
CreateTransporter ==
    /\ transporterPromise.state = "pending"
    /\ transporterPromise' \in TransporterOutcomes
    /\ UNCHANGED <<env, route, body, email, reasonArg, pc, check, userMsg, dnsLog,
                   mails, res, creations, creationsBefore, calls, prev>>

\* const transporter = await getTransporter() resumes: the call throws when the
\* promise is rejected, and otherwise computes `to` and calls transporter.sendMail
AwaitTransporter(c) ==
    /\ calls[c].pc = "awaitTransporter"
    /\ transporterPromise.state \in {"resolved", "rejected"}
    /\ calls' = [calls EXCEPT ![c] =
                    IF transporterPromise.state = "rejected"
                    THEN [@ EXCEPT !.pc = "threw", !.error = transporterPromise.error]
                    ELSE [@ EXCEPT !.pc = "sending",
                                   !.rcpt = Trim(IF calls[c].to \in {Undefined, ""}
                                                 THEN notificationEmail
                                                 ELSE calls[c].to)]]
    /\ UNCHANGED <<env, route, body, email, reasonArg, pc, check, userMsg, dnsLog,
                   mails, res, transporterPromise, creations, creationsBefore, prev>>

\* await transporter.sendMail({...}) resumes: info is returned, or the error is
\* logged and rethrown
TransporterSendMail(c) ==
    /\ calls[c].pc = "sending"
    /\ \E delivered \in BOOLEAN, m \in ErrorMessages :
          calls' = [calls EXCEPT ![c] =
                       IF delivered THEN [@ EXCEPT !.pc = "returned"]
                       ELSE [@ EXCEPT !.pc = "threw", !.error = m]]
    /\ UNCHANGED <<env, route, body, email, reasonArg, pc, check, userMsg, dnsLog,
                   mails, res, transporterPromise, creations, creationsBefore, prev>>

\* The caller has the result of the call; another call can be made in its place
Settled(c) ==
    /\ calls[c].pc \in {"returned", "threw"}
    /\ calls' = [calls EXCEPT ![c] = NoSendCall]
    /\ UNCHANGED <<env, route, body, email, reasonArg, pc, check, userMsg, dnsLog,
                   mails, res, transporterPromise, creations, creationsBefore, prev>>

InitSend ==
    /\ env \in [MX_CHECK : {Undefined}, NODE_ENV : {Undefined},
                NOTIFICATION_EMAIL : {Undefined, " ops@site.io"}]
    /\ route = "contact"
    /\ body = NoBody
    /\ email = ""
    /\ reasonArg = Undefined
    /\ pc = "idle"
    /\ check = NoVerdict
    /\ userMsg = NoUserMsg
    /\ dnsLog = << >>
    /\ mails = << >>
    /\ res = NoResponse
    /\ transporterPromise = NoTransporter
    /\ creations = 0
    /\ creationsBefore = 0
    /\ calls = NoCalls
    /\ prev = NoCall

NextSend ==
    \/ \E c \in 1..MaxCalls : GetTransporter(c)
    \/ CreateTransporter
    \/ \E c \in 1..MaxCalls : AwaitTransporter(c)
    \/ \E c \in 1..MaxCalls : TransporterSendMail(c)
    \/ \E c \in 1..MaxCalls : Settled(c)

SpecSend == InitSend /\ [][NextSend]_vars

----------------------------------------------------------------------------
(* The handlers.  Three are in the repository: POST /api/contact, POST       *)
(* /api/subscribe with the acceptance checks, and a POST /api/subscribe that *)
(* sends without running them ("subscribeUnfiltered").                       *)

Routes == {"contact", "subscribe", "subscribeUnfiltered"}

\* Mutant of Field: the field is read without .trim()
FieldUntrimmed(x) == IF x = Undefined THEN "" ELSE x

\* (body.x ?? '').toString().trim()
Field(x) == Trim(IF x = Undefined THEN "" ELSE x)

RequestEmails ==
    {Undefined, "", " \t", "jane.doe@gmail.com", "  jane.doe@gmail.com\n",
     "Jane@Gmail.COM", "plainaddress", ".jane@gmail.com", "jane@example.com",
     "user@mailinator.com", "admin@mailinator.com", "test@gmail.com",
     "mytest@gmail.com", "jane@1.2.3.4",
     Repeat("a", MaxLocalLen + 1) \o "@gmail.com"}

RequestNames == {Undefined, "  ", "Ann"}

RequestMessages == {Undefined, "", "Hello\n"}

RequestBodies(rt) ==
    IF rt = "contact"
    THEN [name : RequestNames, email : RequestEmails, message : RequestMessages]
    ELSE [name : {Undefined}, email : RequestEmails, message : {Undefined}]

\* Mutant of Post: the handlers with checks do not test the email for emptiness
\* and leave that to isAcceptableEmail
PostWithoutEmailTest ==
    /\ pc = "idle"
    /\ \E rt \in Routes : \E b \in RequestBodies(rt) :
          /\ route' = rt
          /\ body' = b
          /\ email' = Field(b.email)
          /\ IF rt = "contact"
             THEN IF Field(b.name) = "" \/ Field(b.message) = ""
                  THEN /\ res' = [NoResponse EXCEPT
                                      !.status = 400,
                                      !.code = "missing_fields",
                                      !.message = "Name, email and message are required.",
                                      !.field = "email"]
                       /\ pc' = "done"
                  ELSE res' = NoResponse /\ pc' = "rules"
             ELSE IF rt = "subscribe"
                  THEN res' = NoResponse /\ pc' = "rules"
             ELSE IF Field(b.email) = ""
                  THEN /\ res' = [NoResponse EXCEPT !.status = 400,
                                                    !.error = "email is required"]
                       /\ pc' = "done"
                  ELSE res' = NoResponse /\ pc' = "sendAdmin"
    /\ check' = NoVerdict
    /\ userMsg' = NoUserMsg
    /\ dnsLog' = << >>
    /\ mails' = << >>
    /\ creationsBefore' = creations
    /\ UNCHANGED <<env, reasonArg, transporterPromise, creations, calls, prev>>

\* A request arrives: the handler reads and trims the fields, answers 400 when a
\* required one is missing, and otherwise calls isAcceptableEmail (or, in the
\* handler without checks, goes on to send)
Post ==
    /\ pc = "idle"
    /\ \E rt \in Routes : \E b \in RequestBodies(rt) :
          /\ route' = rt
          /\ body' = b
          /\ email' = Field(b.email)
          /\ IF rt = "contact"
             THEN IF Field(b.name) = "" \/ Field(b.email) = "" \/ Field(b.message) = ""
                  THEN /\ res' = [NoResponse EXCEPT
                                      !.status = 400,
                                      !.code = "missing_fields",
                                      !.message = "Name, email and message are required.",
                                      !.field = "email"]
                       /\ pc' = "done"
                  ELSE res' = NoResponse /\ pc' = "rules"
             ELSE IF Field(b.email) = ""
                  THEN /\ res' = [NoResponse EXCEPT !.status = 400,
                                                    !.error = "email is required"]
                       /\ pc' = "done"
                  ELSE /\ res' = NoResponse
                       /\ pc' = IF rt = "subscribe" THEN "rules" ELSE "sendAdmin"
    /\ check' = NoVerdict
    /\ userMsg' = NoUserMsg
    /\ dnsLog' = << >>
    /\ mails' = << >>
    /\ creationsBefore' = creations
    /\ UNCHANGED <<env, reasonArg, transporterPromise, creations, calls, prev>>

\* Mutant of Verdict: the 422 body carries the raw reason whatever NODE_ENV is
VerdictWithReason ==
    /\ pc = "returned"
    /\ IF ~check.ok
       THEN LET m == userMessageForReason(route, IF check.reason = Undefined THEN "" ELSE check.reason)
            IN  /\ userMsg' = m
                /\ res' = [NoResponse EXCEPT
                               !.status = 422,
                               !.code = m.code,
                               !.message = m.message,
                               !.field = m.field,
                               !.reason = check.reason]
                /\ pc' = "done"
       ELSE /\ userMsg' = userMsg
            /\ res' = res
            /\ pc' = "sendAdmin"
    /\ UNCHANGED <<env, route, body, email, reasonArg, check, dnsLog, mails,
                   transporterPromise, creations, creationsBefore, calls, prev>>

\* isAcceptableEmail has returned: 422 with the mapped message, or go on to send
Verdict ==
    /\ pc = "returned"
    /\ IF ~check.ok
       THEN LET m == userMessageForReason(route, IF check.reason = Undefined THEN "" ELSE check.reason)
            IN  /\ userMsg' = m
                /\ res' = [NoResponse EXCEPT
                               !.status = 422,
                               !.code = m.code,
                               !.message = m.message,
                               !.field = m.field,
                               !.reason = IF route = "subscribe" /\ env.NODE_ENV # "production"
                                          THEN check.reason ELSE Undefined]
                /\ pc' = "done"
       ELSE /\ userMsg' = userMsg
            /\ res' = res
            /\ pc' = "sendAdmin"
    /\ UNCHANGED <<env, route, body, email, reasonArg, check, dnsLog, mails,
                   transporterPromise, creations, creationsBefore, calls, prev>>

\* Mutant of SendAdmin: the handler answers 200 after the admin notification and
\* sends no confirmation
SendAdminOnly ==
    /\ pc = "sendAdmin"
    /\ sendMail(Undefined, "done", [NoResponse EXCEPT !.status = 200, !.ok = TRUE])
    /\ UNCHANGED <<env, route, body, email, reasonArg, check, userMsg, dnsLog,
                   creationsBefore, calls, prev>>

\* await sendMail({ subject, html, text }): the admin notification
SendAdmin ==
    /\ pc = "sendAdmin"
    /\ sendMail(Undefined, "sendConfirm", res)
    /\ UNCHANGED <<env, route, body, email, reasonArg, check, userMsg, dnsLog,
                   creationsBefore, calls, prev>>

\* await sendMail({ to: email, ... }), then res.json({ ok: true })
SendConfirm ==
    /\ pc = "sendConfirm"
    /\ sendMail(email, "done", [NoResponse EXCEPT !.status = 200, !.ok = TRUE])
    /\ UNCHANGED <<env, route, body, email, reasonArg, check, userMsg, dnsLog,
                   creationsBefore, calls, prev>>

\* The handler has returned: the request and everything local to it are gone;
\* the module state of email.ts stays
End ==
    /\ pc = "done"
    /\ pc' = "idle"
    /\ route' = "contact"
    /\ body' = NoBody
    /\ email' = ""
    /\ check' = NoVerdict
    /\ userMsg' = NoUserMsg
    /\ dnsLog' = << >>
    /\ mails' = << >>
    /\ res' = NoResponse
    /\ UNCHANGED <<env, reasonArg, transporterPromise, creations, creationsBefore, calls,
                   prev>>

Init ==
    /\ env \in [MX_CHECK : {Undefined, "true", "false"}, NODE_ENV : NodeEnvValues,
                NOTIFICATION_EMAIL : {Undefined, " ops@site.io"}]
    /\ route = "contact"
    /\ body = NoBody
    /\ email = ""
    /\ reasonArg = Undefined
    /\ pc = "idle"
    /\ check = NoVerdict
    /\ userMsg = NoUserMsg
    /\ dnsLog = << >>
    /\ mails = << >>
    /\ res = NoResponse
    /\ transporterPromise = NoTransporter
    /\ creations = 0
    /\ creationsBefore = 0
    /\ calls = NoCalls
    /\ prev = NoCall

Next ==
    \/ Post
    \/ Rules
    \/ ResolveMx
    \/ ResolveA
    \/ ResolveAAAA
    \/ Verdict
    \/ SendAdmin
    \/ SendConfirm
    \/ End

Spec == Init /\ [][Next]_vars

----------------------------------------------------------------------------
(* isAcceptableEmail called again and again by the handlers of one process,  *)
(* with DNS verification off.  Without MX_CHECK the function reaches no      *)
(* await: a call runs from its first line to its return before any other     *)
(* code of the process runs, so calls made concurrently run one after        *)
(* another.                                                                  *)

\* process.env.MX_CHECK values under which shouldCheckMx is false
MxCheckOffValues == {Undefined, "false", "TRUE"}

\* const check = await isAcceptableEmail(email): a handler calls its copy
Call ==
    /\ pc = "idle"
    /\ \E rt \in FilterRoutes, cand \in RequestEmails :
          route' = rt /\ email' = cand
    /\ pc' = "rules"
    /\ UNCHANGED <<env, body, reasonArg, check, userMsg, dnsLog, mails, res,
                   transporterPromise, creations, creationsBefore, calls, prev>>

\* The call has returned to its handler; prev remembers this call or keeps the
\* one it had
Return ==
    /\ pc = "returned"
    /\ pc' = "idle"
    /\ prev' \in {prev, [route |-> route, email |-> email, check |-> check]}
    /\ UNCHANGED <<env, route, body, email, reasonArg, check, userMsg, dnsLog, mails,
                   res, transporterPromise, creations, creationsBefore, calls>>

InitCalls ==
    /\ env \in [MX_CHECK : MxCheckOffValues, NODE_ENV : {Undefined},
                NOTIFICATION_EMAIL : {Undefined}]
    /\ route = "contact"
    /\ body = NoBody
    /\ email = ""
    /\ reasonArg = Undefined
    /\ pc = "idle"
    /\ check = NoVerdict
    /\ userMsg = NoUserMsg
    /\ dnsLog = << >>
    /\ mails = << >>
    /\ res = NoResponse
    /\ transporterPromise = NoTransporter
    /\ creations = 0
    /\ creationsBefore = 0
    /\ calls = NoCalls
    /\ prev = NoCall

NextCalls == Call \/ Rules \/ Return

SpecCalls == InitCalls /\ [][NextCalls]_vars

----------------------------------------------------------------------------
(* userMessageForReason on its own, on any reason string *)

\* Every reason string the two copies of isAcceptableEmail return
FilterReasons ==
    {"empty email", "invalid format", "local part too long", "domain too long",
     "invalid local", "invalid local part", "invalid domain",
     "blocked domain (example)", "disposable email provider",
     "role or test account blocked", "test/dummy address blocked",
     "suspicious domain", "no mail servers for domain (MX/A/AAAA missing)",
     "domain verification failed"}

\* Pieces of reason strings: the substrings the mapper looks for, parts of them,
\* other casings and filler
ReasonFragments ==
    {"empty", "invalid format", "invalid local", "invalid domain", "invalid",
     "too long", "local part too long", "domain too long", "blocked domain",
     "example", "disposable", "temporary", "temp", "role", "test", "dummy",
     "role or test", "no mail servers", "domain verification failed",
     "suspicious domain", "EMPTY", "Too Long", "Test", " ", "x", "mailbox full"}

RECURSIVE GenReasons(_)
\* Every concatenation of at most n fragments
GenReasons(n) ==
    IF n = 0 THEN {""}
    ELSE LET shorter == GenReasons(n - 1)
         IN  shorter \cup {s \o f : s \in shorter, f \in ReasonFragments}

Reasons == {Undefined} \cup FilterReasons \cup GenReasons(MaxFrags)

\* const userMsg = userMessageForReason(reason)
Map ==
    /\ pc = "map"
    /\ userMsg' = userMessageForReason(route, reasonArg)
    /\ pc' = "mapped"
    /\ UNCHANGED <<env, route, body, email, reasonArg, check, dnsLog, mails, res,
                   transporterPromise, creations, creationsBefore, calls, prev>>

InitMapper ==
    /\ env = [MX_CHECK |-> Undefined, NODE_ENV |-> Undefined,
              NOTIFICATION_EMAIL |-> Undefined]
    /\ route \in FilterRoutes
    /\ reasonArg \in Reasons
    /\ pc = "map"
    /\ body = NoBody
    /\ email = ""
    /\ check = NoVerdict
    /\ userMsg = NoUserMsg
    /\ dnsLog = << >>
    /\ mails = << >>
    /\ res = NoResponse
    /\ transporterPromise = NoTransporter
    /\ creations = 0
    /\ creationsBefore = 0
    /\ calls = NoCalls
    /\ prev = NoCall

NextMapper == Map

SpecMapper == InitMapper /\ [][NextMapper]_vars

----------------------------------------------------------------------------
(* The rules of the filter as the specification lists them (section 4.1),    *)
(* each on its own: whether rule k fails for a candidate, whatever the other *)
(* rules say, and the reason it gives.                                       *)

RuleRaw(cand) == Trim(IF cand = Undefined THEN "" ELSE cand)

\* The part before the first '@'
RuleLocal(cand) == Split(RuleRaw(cand))[1]

\* The part after the first '@'
RuleDomain(cand) ==
    LET parts == Split(RuleRaw(cand)) IN IF Len(parts) >= 2 THEN parts[2] ELSE ""

RuleNames ==
    <<"empty", "format", "local length", "domain length", "local shape",
      "domain shape", "blocked domain", "disposable domain", "role or test local part",
      "test/dummy pattern", "numeric-looking domain">>

RuleFails(k, cand) ==
    LET raw == RuleRaw(cand)
        l == RuleLocal(cand)
        d == RuleDomain(cand)
        ll == ToLowerCase(l)
        ld == ToLowerCase(d)
        name == RuleNames[k]
    IN  CASE name = "empty" -> raw = ""
          [] name = "format" ->
                ~simpleEmailRegex(raw) \/ Len(Split(raw)) # 2 \/ l = "" \/ d = ""
          [] name = "local length" -> Len(l) > MaxLocalLen
          [] name = "domain length" -> Len(d) > MaxDomainLen
          [] name = "local shape" ->
                StartsWith(l, ".") \/ EndsWith(l, ".") \/ Includes(l, "..")
          [] name = "domain shape" ->
                StartsWith(d, "-") \/ EndsWith(d, "-") \/ Includes(d, "..")
          [] name = "blocked domain" ->
                ld \in {"example.com", "example.org", "example.net", "example.co",
                        "example"} \/ Includes(ld, "example")
          [] name = "disposable domain" ->
                ld \in contactDisposableDomains \cap subscribeDisposableDomains
          [] name = "role or test local part" ->
                ll \in contactBlockedLocalExact \cap subscribeBlockedLocalExact
          [] name = "test/dummy pattern" ->
                \/ (StartsWith(ll, "test") /\ \A i \in 5..Len(ll) : Ch(ll, i) \in Digits)
                \/ Includes(ll, "test")
                \/ Includes(ll, "dummy")
          [] name = "numeric-looking domain" ->
                /\ \E i \in 1..Len(d) : Ch(d, i) # "."
                /\ \A i \in 1..Len(d) : Ch(d, i) \in Digits \cup {"."}

\* The reason each rule gives in route rt's copy of the filter
RuleReason(rt, k) ==
    LET name == RuleNames[k]
    IN  CASE name = "empty" -> "empty email"
          [] name = "format" -> "invalid format"
          [] name = "local length" -> "local part too long"
          [] name = "domain length" -> "domain too long"
          [] name = "local shape" ->
                IF rt = "contact" THEN "invalid local" ELSE "invalid local part"
          [] name = "domain shape" -> "invalid domain"
          [] name = "blocked domain" -> "blocked domain (example)"
          [] name = "disposable domain" -> "disposable email provider"
          [] name = "role or test local part" -> "role or test account blocked"
          [] name = "test/dummy pattern" -> "test/dummy address blocked"
          [] name = "numeric-looking domain" -> "suspicious domain"

FailingRules(cand) == {k \in 1..Len(RuleNames) : RuleFails(k, cand)}

\* The first rule, in the order of RuleNames, that fails for cand; 0 when none does
FirstFailingRule(cand) ==
    LET RECURSIVE first(_)
        first(k) == IF k > Len(RuleNames) THEN 0
                    ELSE IF RuleFails(k, cand) THEN k
                    ELSE first(k + 1)
    IN  first(1)

DnsReasons ==
    {"no mail servers for domain (MX/A/AAAA missing)", "domain verification failed"}

----------------------------------------------------------------------------
(* Claims *)

\* C1: a call of isAcceptableEmail that has returned gives the reason of the
\* first rule, in the order empty, format, local length, domain length, local
\* shape, domain shape, blocked domain, disposable domain, exact role/test local
\* part, test/dummy pattern, numeric-looking domain, that fails for the
\* candidate, whichever later rules fail too; when none of them fails it gives
\* Accepted if DNS verification is off, and otherwise Accepted or a rejection
\* with the one reason of the DNS rule.
C1_FirstFailingRuleDecides ==
    pc = "returned" =>
        LET first == FirstFailingRule(email)
        IN  IF first # 0
                THEN check = Rejected(RuleReason(route, first))
            ELSE IF env.MX_CHECK # "true" THEN check = Accepted
            ELSE check = Accepted \/ (~check.ok /\ check.reason \in DnsReasons)

\* C1 witness: 'test@...' fails the exact role/test rule and the test/dummy
\* pattern rule, and the call returned the reason of the earlier one
C1_Witness ==
    /\ pc = "returned"
    /\ email = "test@gmail.com"
    /\ FailingRules(email) = {9, 10}
    /\ check = Rejected("role or test account blocked")


\* The request in flight got past the required-field test
PastFieldCheck == pc # "idle" /\ res.status # 400

\* The filter's verdict on the email of the request in flight is a rejection:
\* the call returned one, or (rules 1-11 need no DNS) one of them fails for it
FilterRejectsEmail ==
    \/ (check # NoVerdict /\ ~check.ok)
    \/ FirstFailingRule(email) # 0

\* The copy of the filter and of the mapper that belongs to a route
FilterRouteOf(rt) == IF rt = "contact" THEN "contact" ELSE "subscribe"

\* The 422 response the claim describes, for internal reason r
Is422For(r) ==
    LET m == userMessageForReason(FilterRouteOf(route), r)
    IN  /\ res.status = 422
        /\ ~res.ok
        /\ res.code = m.code
        /\ res.message = m.message
        /\ res.field = m.field

\* C2: on POST /api/contact and POST /api/subscribe, a request whose email the
\* filter rejects never reaches sendMail and ends with HTTP 422, ok:false and
\* the mapper's code, message and field.
C2_RejectedEmailNeverSends ==
    (PastFieldCheck /\ FilterRejectsEmail) =>
        /\ mails = << >>
        /\ pc = "done" =>
              Is422For(IF check = NoVerdict
                       THEN RuleReason("subscribe", FirstFailingRule(email))
                       ELSE check.reason)

\* C2, for the two handlers that call isAcceptableEmail: what the claim says holds
C2_HoldsWhereFilterIsCalled ==
    route # "subscribeUnfiltered" => C2_RejectedEmailNeverSends

\* C3: a request answered 200 made exactly two sendMail calls, both delivered,
\* in this order: the admin notification, without 'to', addressed to the
\* notification address, then the confirmation, addressed to the trimmed email
\* of the request; a request past the field test whose email was accepted and
\* whose sends did not fail ends with 200 {ok:true}, and no response is written
\* while a send is still to be made.
C3_TwoSendsThenOk ==
    LET fixed == IF env.NOTIFICATION_EMAIL \in {Undefined, ""}
                 THEN "mohfey@gmail.com" ELSE Trim(env.NOTIFICATION_EMAIL)
        submitter == Trim(body.email)
        accepted == route = "subscribeUnfiltered" \/ check = Accepted
        allSent == \A i \in 1..Len(mails) : mails[i].outcome = "sent"
    IN  /\ res.status = 200 =>
              /\ pc = "done"
              /\ res.ok
              /\ mails = <<[to |-> Undefined, rcpt |-> fixed, outcome |-> "sent"],
                           [to |-> submitter, rcpt |-> submitter, outcome |-> "sent"]>>
        /\ (pc = "done" /\ PastFieldCheck /\ accepted /\ allSent) =>
              res.status = 200 /\ Len(mails) = 2
        /\ pc \in {"sendAdmin", "sendConfirm"} => res.status = 0
        /\ Len(mails) <= 2

\* C3 witness: a contact request with a padded, acceptable email answered 200
C3_Witness ==
    /\ route = "contact"
    /\ body.email = "  jane.doe@gmail.com\n"
    /\ res.status = 200
    /\ Len(mails) = 2
    /\ mails[2].rcpt = "jane.doe@gmail.com"

\* C4: a sendMail call that fails is the last call of its request, which ends with
\* HTTP 500 {ok:false, error}; so after a failed admin notification no
\* confirmation is attempted; and a request answered 200 had no failed call.
C4_FirstFailureAborts ==
    /\ \A i \in 1..Len(mails) :
          mails[i].outcome # "sent" =>
              /\ i = Len(mails)
              /\ pc = "done"
              /\ res.status = 500
              /\ ~res.ok
              /\ res.error \notin {Undefined, ""}
    /\ res.status = 200 => \A i \in 1..Len(mails) : mails[i].outcome = "sent"

\* C4 witness: the admin notification of a contact request failed in the transport
C4_Witness ==
    /\ route = "contact"
    /\ Len(mails) = 1
    /\ mails[1].to = Undefined
    /\ mails[1].outcome = "send failed"
    /\ res.status = 500

\* DNS verification ran for the call that returned
DnsRan == pc = "returned" /\ dnsLog # << >>

DnsErrors == {i \in 1..Len(dnsLog) : dnsLog[i].result = "error"}

DnsOrder ==
    /\ Len(dnsLog) <= 3
    /\ \A i \in 1..Len(dnsLog) : dnsLog[i].rr = <<"MX", "A", "AAAA">>[i]
    /\ Len(dnsLog) >= 2 => dnsLog[1].result = "empty"
    /\ DnsRan => Len(dnsLog) \in {1, 3}

C7_NoDnsUnlessEnabledAndClean ==
    (dnsLog # << >> \/ pc \in {"resolveMx", "resolveA", "resolveAAAA"}) =>
        env.MX_CHECK = "true" /\ FirstFailingRule(email) = 0

\* C7 witness: with MX_CHECK 'true', a call rejected by one of the rules returned
\* without a lookup
C7_Witness ==
    /\ pc = "returned"
    /\ env.MX_CHECK = "true"
    /\ FirstFailingRule(email) # 0
    /\ ~check.ok
    /\ dnsLog = << >>

UserCodes ==
    {"email_missing", "email_invalid_format", "email_too_long", "email_blocked_domain",
     "email_disposable", "email_role_or_test", "email_domain_unverified",
     "email_unacceptable"}

\* C8: for every reason a call of isAcceptableEmail returns, in either route, the
\* mapper of each route gives a code of the fixed set, a message and the field
\* 'email'.
C8_MapperTotalOnFilterReasons ==
    (pc = "returned" /\ ~check.ok) =>
        \A rt \in FilterRoutes :
            LET m == userMessageForReason(rt, check.reason)
            IN  /\ m.code \in UserCodes
                /\ m.field = "email"
                /\ m.message \notin {Undefined, ""}

\* C8 witness: a reason no test of the mapper matches gets the generic code
C8_Witness ==
    /\ pc = "returned"
    /\ check = Rejected("suspicious domain")
    /\ userMessageForReason(route, check.reason).code = "email_unacceptable"

\* The mapping table of the specification (section 4.2), in its order
SpecMappingTable ==
    <<[has |-> {"empty"}, code |-> "email_missing"],
      [has |-> {"invalid format", "invalid local", "invalid domain"},
       code |-> "email_invalid_format"],
      [has |-> {"too long"}, code |-> "email_too_long"],
      [has |-> {"blocked domain", "example"}, code |-> "email_blocked_domain"],
      [has |-> {"disposable", "temp"}, code |-> "email_disposable"],
      [has |-> {"role", "test", "dummy"}, code |-> "email_role_or_test"],
      [has |-> {"no mail servers", "domain verification failed"},
       code |-> "email_domain_unverified"]>>

\* The same table with the third row asking for 'local part too long' or
\* 'domain too long'
AmendedMappingTable ==
    [SpecMappingTable EXCEPT ![3].has = {"local part too long", "domain too long"}]

\* The code of the first row of the table one of whose substrings occurs in the
\* lowercased reason; email_unacceptable when no row matches
TableCode(table, reason) ==
    LET r == ToLowerCase(IF reason = Undefined THEN "" ELSE reason)
        rows == {i \in 1..Len(table) : \E sub \in table[i].has : Includes(r, sub)}
    IN  IF rows = {} THEN "email_unacceptable" ELSE table[SetMin(rows)].code

\* C9 as stated: for every reason string the mapper returns the code of the first
\* row of the specification's table that matches, the third row matching 'too
\* long'.
C9_FirstRowOfSpecTable ==
    pc = "mapped" => userMsg.code = TableCode(SpecMappingTable, reasonArg)

\* C9 amended: for every reason string the mapper returns the code of the first
\* matching row of the table whose third row matches 'local part too long' or
\* 'domain too long' (not any 'too long').
C9_FirstRowOfAmendedTable ==
    pc = "mapped" => userMsg.code = TableCode(AmendedMappingTable, reasonArg)

\* C9 witness: a reason that two rows match is given the code of the earlier row
C9_Witness ==
    /\ pc = "mapped"
    /\ reasonArg = "temp" \o "test"
    /\ userMsg.code = "email_disposable"

\* C10: the same reason string gives the same {code, message, field} in the
\* contact route and in the subscribe route.
C10_SameMessageOnBothRoutes ==
    pc = "mapped" =>
        /\ userMsg = userMessageForReason(route, reasonArg)
        /\ contactUserMessageForReason(reasonArg) = subscribeUserMessageForReason(reasonArg)

----------------------------------------------------------------------------
(* C11 *)

\* A request is in flight and one of the fields its route requires is missing
\* or empty after trimming
MissingRequired ==
    /\ pc # "idle"
    /\ IF route = "contact"
       THEN \E f \in {body.name, body.email, body.message} : RuleRaw(f) = ""
       ELSE RuleRaw(body.email) = ""

\* Nothing of the filter or of the mail transport has run for the request
NothingRan == check = NoVerdict /\ dnsLog = << >> /\ mails = << >>

\* C11 as stated: on every route a request with a required field missing or empty
\* after trimming is answered 400 with a body made of ok:false and error, and
\* neither the filter, nor a DNS lookup, nor a send has run
C11_Answered400WithError ==
    MissingRequired =>
        /\ pc = "done"
        /\ res = [NoResponse EXCEPT !.status = 400, !.error = res.error]
        /\ res.error # Undefined
        /\ NothingRan

\* C11 amended: such a request is answered 400 with ok:false, and neither the
\* filter, nor a DNS lookup, nor a send has run; the body carries
\* error:'email is required' on the subscribe routes and, on the contact route,
\* code:'missing_fields', a message and field:'email' with no error key
C11_Answered400 ==
    MissingRequired =>
        /\ pc = "done"
        /\ res = IF route = "contact"
                 THEN [NoResponse EXCEPT
                          !.status = 400,
                          !.code = "missing_fields",
                          !.message = "Name, email and message are required.",
                          !.field = "email"]
                 ELSE [NoResponse EXCEPT !.status = 400,
                                         !.error = "email is required"]
        /\ NothingRan

\* A contact request with an email and a name but a message that is empty has been
\* answered 400
C11_Witness ==
    /\ MissingRequired
    /\ route = "contact"
    /\ RuleRaw(body.email) # ""
    /\ RuleRaw(body.name) # ""
    /\ res.status = 400

----------------------------------------------------------------------------
(* C12 *)

\* The candidate has no '@', or has no '.' after its first '@'
NoAtOrNoDotAfterAt ==
    LET ats == AtPositions(email)
    IN  \/ ats = {}
        \/ \A j \in (SetMin(ats) + 1)..Len(email) : Ch(email, j) # "."

\* C12 as stated: every non-empty candidate string with no '@', or with no '.'
\* after the '@', is Rejected with reason 'invalid format'
C12_NonEmptyIsInvalidFormat ==
    (pc = "returned" /\ email \notin {Undefined, ""} /\ NoAtOrNoDotAfterAt)
        => check = Rejected("invalid format")

\* C12 amended: every candidate string that is non-empty after trimming and has
\* no '@', or no '.' after the '@', is Rejected with reason 'invalid format'
C12_NonBlankIsInvalidFormat ==
    (pc = "returned" /\ email # Undefined /\ RuleRaw(email) # "" /\ NoAtOrNoDotAfterAt)
        => check = Rejected("invalid format")

\* A candidate with an '@' and no '.' after it has been rejected
C12_Witness ==
    /\ pc = "returned"
    /\ email # Undefined
    /\ AtPositions(email) # {}
    /\ NoAtOrNoDotAfterAt
    /\ check = Rejected("invalid format")

----------------------------------------------------------------------------
(* C13 *)

\* C13 as stated: a 422 body carries the key reason only when NODE_ENV has been set,
\* and set to something other than 'production'; with NODE_ENV unset (the default)
\* or 'production' the reason is left out
C13_ReasonOnlyWhenExplicitlyEnabled ==
    (res.status = 422 /\ res.reason # Undefined)
        => env.NODE_ENV \notin {Undefined, "production"}

\* C13 amended: a 422 body of the contact route never carries the key reason; a 422
\* body of the subscribe route carries it, with the filter's reason as its value,
\* exactly when NODE_ENV is not 'production', unset included
C13_ReasonUnlessProduction ==
    res.status = 422 =>
        res.reason = IF route = "subscribe" /\ env.NODE_ENV # "production"
                     THEN check.reason ELSE Undefined

\* A subscribe request was answered 422 without the reason, under NODE_ENV 'production'
C13_Witness ==
    /\ res.status = 422
    /\ route = "subscribe"
    /\ env.NODE_ENV = "production"
    /\ res.reason = Undefined

----------------------------------------------------------------------------
(* C14 *)

\* The call that has just returned had the input of the remembered earlier call
SameInputAsBefore ==
    /\ pc = "returned"
    /\ prev # NoCall
    /\ prev.route = route
    /\ prev.email = email

----------------------------------------------------------------------------
(* C15 *)

\* What the other route's copy of rules 1-10 gives for the candidate of the call
OtherCopyRules ==
    StaticRules(IF route = "contact" THEN "subscribe" ELSE "contact", email)

\* C15 as stated: the contact copy and the subscribe copy of isAcceptableEmail return,
\* for the same candidate and the same DNS answers, the same verdict with the same
\* reason string
C15_CopiesReturnTheSame ==
    pc = "returned" =>
        IF OtherCopyRules = ToDns THEN StaticRules(route, email) = ToDns
        ELSE check = OtherCopyRules

\* What holds instead: the two copies agree on accepting or rejecting, and on the
\* reason except that a bad local part is 'invalid local' in the contact copy and
\* 'invalid local part' in the subscribe copy
C15_CopiesAgreeButForInvalidLocal ==
    pc = "returned" =>
        IF OtherCopyRules = ToDns THEN StaticRules(route, email) = ToDns
        ELSE \/ check = OtherCopyRules
             \/ {check.reason, OtherCopyRules.reason} = {"invalid local", "invalid local part"}

----------------------------------------------------------------------------
(* C16 *)

\* C16: whatever the interleaving of concurrent sendMail calls, createTransporter
\* has been invoked at most once; the promise is stored from the first
\* getTransporter() on, before anything awaits it; and every call in flight holds
\* the promise of that one invocation
C16_OneTransporterPerProcess ==
    /\ creations <= 1
    /\ transporterPromise.state = "null" <=> creations = 0
    /\ \A c \in 1..MaxCalls : calls[c].pc # "idle" => calls[c].promise = 1

\* Two sendMail calls are awaiting the transporter while it is being created
C16_Witness ==
    /\ transporterPromise.state = "pending"
    /\ creations = 1
    /\ \E c, d \in 1..MaxCalls :
          /\ c # d
          /\ calls[c].pc = "awaitTransporter"
          /\ calls[d].pc = "awaitTransporter"

----------------------------------------------------------------------------
(* C17 *)

\* C17: once the promise of createTransporter is rejected, no step changes it or
\* invokes createTransporter again; every sendMail call made from then on throws
\* the error of the promise without a send being attempted; and every request that
\* has passed the filter and comes to its first send is answered 500
C17_RejectedPromiseStaysMemoised ==
    [][transporterPromise.state = "rejected" =>
          /\ transporterPromise' = transporterPromise
          /\ creations' = creations
          /\ Len(mails') > Len(mails) =>
                 /\ mails'[Len(mails')].outcome = "no transporter"
                 /\ mails'[Len(mails')].rcpt = Undefined
                 /\ res' = Respond500(transporterPromise.error)
                 /\ pc' = "done"
          /\ pc = "sendAdmin" => res'.status = 500]_vars

\* A request that arrived after the creation had failed passed the filter and was
\* answered 500 by its first sendMail call, which attempted no send
C17_Witness ==
    /\ transporterPromise.state = "rejected"
    /\ creationsBefore = 1
    /\ creations = 1
    /\ check = Accepted
    /\ Len(mails) = 1
    /\ mails[1].outcome = "no transporter"
    /\ res.status = 500
    /\ res.error = "connect ECONNREFUSED"

----------------------------------------------------------------------------
(* C18 *)

\* C18: no response is a 422 with code email_missing, and isAcceptableEmail called
\* by a handler never returns 'empty email': an email that is empty after trimming
\* is answered 400 before the filter is called
C18_Never422EmailMissing ==
    /\ res.status = 422 => res.code # "email_missing"
    /\ check # Rejected("empty email")
    /\ (pc # "idle" /\ RuleRaw(body.email) = "") => res.status = 400 /\ check = NoVerdict

\* A request to a route with checks whose email is made of whitespace only has been
\* answered 400
C18_Witness ==
    /\ route \in FilterRoutes
    /\ pc = "done"
    /\ body.email \notin {Undefined, ""}
    /\ RuleRaw(body.email) = ""
    /\ RuleRaw(body.name) # "" \/ route = "subscribe"
    /\ res.status = 400

====
